---- MODULE Spec2Model ----
(***************************************************************************)
(* Model of the pose-to-decision pipeline of VirtualProctor:               *)
(*   utils.py           person_from_keypoints_with_scores and its records  *)
(*   cheatdetection.py  CheatDetection.detect_cheating                     *)
(*                                                                         *)
(* Numbers.  Coordinates are reals in the code; here a coordinate v stands *)
(* for the real v / CoordDen, so that fractional and negative pixels       *)
(* exist and int() has something to truncate.  Scores are integers in      *)
(* units of one score quantum.  A probability vector is a triple of        *)
(* non-negative weights standing for the weights divided by their sum: the *)
(* decision rule only compares entries with each other and with K times    *)
(* each other, so it is indifferent to the common factor.                  *)
(***************************************************************************)
EXTENDS Integers, Sequences, FiniteSets

VARIABLES
  \* ---- utils.py: one construction of a Person
  keypoints_with_scores,     \* the raw [17, 3] array (argument)
  keypoint_score_threshold,  \* the threshold (argument)
  person,                    \* the returned Person, NoPerson before the call
  \* ---- cheatdetection.py: detect_cheating
  pc,                        \* "idle" | "loop" | "returned" | "raised"
  persons,                   \* what self.detector.detect(image) returned
  idx,                       \* number of persons the for loop has completed
  image,                     \* rectangles drawn on the input frame so far
  cheating_detected,         \* the local flag, returned at the end
  prediction,                \* last probability vector of self.model.predict
  predicted_class,           \* last decision: 0, 1, 2 (NoClass before any)
  decisions,                 \* predicted_class of every person of this call
  error,                     \* which collaborator raised: "none" | "detector"
                             \*   | "embedding" | "classifier"
  embed_calls,               \* landmarks_to_embedding calls in this call
  predict_calls,             \* self.model.predict calls in this call
  draw_calls,                \* cv2.rectangle calls in this call
  observed                   \* one earlier observation the caller kept

utilsVars == <<keypoints_with_scores, keypoint_score_threshold, person>>

frameVars == <<pc, persons, idx, image, cheating_detected, prediction,
               predicted_class, decisions, error, embed_calls, predict_calls,
               draw_calls, observed>>

vars == <<keypoints_with_scores, keypoint_score_threshold, person,
          pc, persons, idx, image, cheating_detected, prediction,
          predicted_class, decisions, error, embed_calls, predict_calls,
          draw_calls, observed>>

(***************************************************************************)
(* Bounds of the model and constants of the program.                       *)
(***************************************************************************)
\* Sub-pixel steps per pixel of the modelled coordinates.
CoordDen == 2

\* Coordinates range over -MaxCoord .. MaxCoord sub-pixel steps.
MaxCoord == 3

\* Scores range over 0 .. MaxScore quanta.
MaxScore == 2

\* At most MaxPersons persons are detected in one frame.
MaxPersons == 2

\* Number of BodyPart members, the rows of the raw array.
NumBodyParts == 17

\* The confidence-dominance factor of the decision rule.
K == 10000

\* Thickness of the rectangle drawn around a cheating person.
Thickness == 2

(***************************************************************************)
(* utils.py                                                                *)
(***************************************************************************)
\* BodyPart: the members' values, NOSE = 0 .. RIGHT_ANKLE = 16.
BodyPart == 0 .. (NumBodyParts - 1)

\* Point(x, y)
Point(x, y) == [x |-> x, y |-> y]

\* Rectangle(start_point, end_point)
Rectangle(start_point, end_point) ==
  [start_point |-> start_point, end_point |-> end_point]

\* KeyPoint(body_part, coordinate, score)
KeyPoint(body_part, coordinate, score) ==
  [body_part |-> body_part, coordinate |-> coordinate, score |-> score]

\* Person(keypoints, bounding_box, score); id keeps its default None.
Person(keypoints, bounding_box, score) ==
  [keypoints |-> keypoints, bounding_box |-> bounding_box, score |-> score]

NoPerson == [keypoints |-> <<>>]

\* Python's int() of a real: truncation toward zero.  The result is an
\* integral number of pixels, kept in sub-pixel steps like every coordinate.
int(v) ==
  IF v >= 0 THEN (v \div CoordDen) * CoordDen
            ELSE -(((-v) \div CoordDen) * CoordDen)

\* numpy.floor, in the same representation: rounding toward minus infinity.
floor(v) == (v \div CoordDen) * CoordDen

\* Column c of the raw array: keypoints_with_scores[:, c].
Column(kws, c) == [i \in 1 .. Len(kws) |-> kws[i][c]]

RECURSIVE AMinFrom(_, _)
AMinFrom(s, n) ==
  IF n = 1 THEN s[1]
  ELSE LET m == AMinFrom(s, n - 1) IN IF s[n] < m THEN s[n] ELSE m

RECURSIVE AMaxFrom(_, _)
AMaxFrom(s, n) ==
  IF n = 1 THEN s[1]
  ELSE LET m == AMaxFrom(s, n - 1) IN IF s[n] > m THEN s[n] ELSE m

\* np.amin / np.amax of a non-empty column.
AMin(s) == AMinFrom(s, Len(s))
AMax(s) == AMaxFrom(s, Len(s))

\* The loop of lines 81-87: row i (0-based) becomes
\* KeyPoint(BodyPart(i), Point(int(x), int(y)), score).  Sequences are
\* 1-based here, so position p holds row p - 1.
KeypointsReversed(kpts_x, kpts_y, scores) ==
  [p \in 1 .. Len(scores) |->
     KeyPoint(Len(scores) - p,
              Point(int(kpts_x[Len(scores) + 1 - p]),
                    int(kpts_y[Len(scores) + 1 - p])),
              scores[Len(scores) + 1 - p])]

Keypoints(kpts_x, kpts_y, scores) ==
  [p \in 1 .. Len(scores) |->
     KeyPoint(p - 1, Point(int(kpts_x[p]), int(kpts_y[p])), scores[p])]

\* Lines 90-94: the bounding box.
BoundingBoxFloor(kpts_x, kpts_y) ==
  Rectangle(Point(floor(AMin(kpts_x)), floor(AMin(kpts_y))),
            Point(floor(AMax(kpts_x)), floor(AMax(kpts_y))))

BoundingBox(kpts_x, kpts_y) ==
  Rectangle(Point(int(AMin(kpts_x)), int(AMin(kpts_y))),
            Point(int(AMax(kpts_x)), int(AMax(kpts_y))))

RECURSIVE SumSeq(_)
SumSeq(s) == IF s = <<>> THEN 0 ELSE s[1] + SumSeq(Tail(s))

\* np.average of a list: the sum over the length, kept as the exact
\* fraction num / den; of an empty list it is NaN (0.0 / 0).
Average(s) ==
  IF Len(s) = 0 THEN [nan |-> TRUE, num |-> 0, den |-> 0]
  ELSE [nan |-> FALSE, num |-> SumSeq(s), den |-> Len(s)]

\* Lines 97-99: the person score.
PersonScoreInclusive(scores, threshold) ==
  LET above(x) == x >= threshold
  IN Average(SelectSeq(scores, above))

PersonScore(scores, threshold) ==
  LET above(x) == x > threshold
  IN Average(SelectSeq(scores, above))

\* person_from_keypoints_with_scores; image_height and image_width are
\* arguments the body never reads.
person_from_keypoints_with_scores(kws, threshold) ==
  LET kpts_x == Column(kws, 1)
      kpts_y == Column(kws, 2)
      scores == Column(kws, 3)
  IN Person(Keypoints(kpts_x, kpts_y, scores),
            BoundingBox(kpts_x, kpts_y),
            PersonScore(scores, threshold))

(***************************************************************************)
(* Inputs of person_from_keypoints_with_scores: raw arrays of NumBodyParts *)
(* rows <<x, y, score>>.  The columns vary independently: x alternates     *)
(* between two values by row parity, y changes after the face rows, the    *)
(* score differs on every third row; so the minimum and the maximum of a   *)
(* column fall on different rows, and rows are told apart by their scores. *)
(***************************************************************************)
Coords == (-MaxCoord) .. MaxCoord

Scores == 0 .. MaxScore

RawArray(xa, xb, ya, yb, sa, sb) ==
  [i \in 1 .. NumBodyParts |->
     << IF i % 2 = 1 THEN xa ELSE xb,
        IF i <= 5 THEN ya ELSE yb,
        IF i % 3 = 0 THEN sa ELSE sb >>]

RawArrays ==
  { RawArray(xa, xb, ya, yb, sa, sb) :
      xa \in Coords, xb \in Coords, ya \in Coords, yb \in {-1, MaxCoord},
      sa \in Scores, sb \in Scores }

(***************************************************************************)
(* cheatdetection.py                                                       *)
(***************************************************************************)
\* The persons self.detector.detect(image) can return: Person records
\* built from the pose model's raw output, here an ordinary pose and a
\* degenerate one whose keypoints all collapse to one point.
DetectedPersons ==
  { person_from_keypoints_with_scores(
        RawArray(-MaxCoord, MaxCoord, -1, MaxCoord, 1, MaxScore), 0),
    person_from_keypoints_with_scores(RawArray(1, 1, 1, 1, 0, 0), 0) }

RECURSIVE SeqsUpTo(_, _)
SeqsUpTo(S, n) ==
  IF n = 0 THEN { <<>> }
  ELSE LET shorter == SeqsUpTo(S, n - 1)
       IN shorter \cup { Append(s, x) : s \in shorter, x \in S }

\* Outputs of the detector: sequences of at most MaxPersons persons.
PersonSeqs == SeqsUpTo(DetectedPersons, MaxPersons)

\* Outputs of self.model.predict after np.squeeze: <<p0, p1, p2>>, where
\* the code's prediction[i] is position i + 1 here.  The values put p0 on
\* both sides of, and exactly at, K times p1.
ProbVals == {0, 1, K - 1, K, K + 1}

ProbVectors ==
  { <<a, b, c>> : a \in ProbVals, b \in ProbVals, c \in ProbVals }
    \ { <<0, 0, 0>> }

\* The vectors of the specification that follows several calls: one per
\* decision, the first two on either side of the dominance boundary.
ProbeVectors == { <<K, 1, 0>>, <<K - 1, 1, 0>>, <<1, K, 0>> }

NoPrediction == <<>>

NoClass == -1

NoObservation == [kind |-> "none"]

\* np.max(prediction)
NpMax(pr) ==
  LET m == IF pr[1] >= pr[2] THEN pr[1] ELSE pr[2]
  IN IF m >= pr[3] THEN m ELSE pr[3]

\* Lines 45-51: the decision rule; 0 CHEATING, 1 NOT_CHEATING, 2 UNCERTAIN.
DecisionRuleStrict(pr) ==
  IF pr[1] = NpMax(pr)
  THEN IF pr[1] > K * pr[2] THEN 0 ELSE 1
  ELSE 2

DecisionRule(pr) ==
  IF pr[1] = NpMax(pr)
  THEN IF pr[1] >= K * pr[2] THEN 0 ELSE 1
  ELSE 2

\* Lines 54-55: the flag after one person.
FlagAfterOverwrite(flag, class) == class = 0

FlagAfter(flag, class) == IF class = 0 THEN TRUE ELSE flag

\* Lines 56-58: the rectangle cv2.rectangle draws for one person.
Box(p) ==
  [start_point |-> << int(p.bounding_box.start_point.x),
                      int(p.bounding_box.start_point.y) >>,
   end_point   |-> << int(p.bounding_box.end_point.x),
                      int(p.bounding_box.end_point.y) >>,
   color       |-> <<0, 0, 255>>,
   thickness   |-> Thickness]

\* Lines 54-58: the frame after one person.
AnnotateUnlessUncertain(img, p, class) ==
  IF class # 2 THEN Append(img, Box(p)) ELSE img

Annotate(img, p, class) ==
  IF class = 0 THEN Append(img, Box(p)) ELSE img

\* Lines 29-32 when the detector returns: the locals of a fresh call, and
\* the early return on an empty (falsy) result.
DetectNoEarlyReturn ==
  /\ pc # "loop"
  /\ \E ps \in PersonSeqs : persons' = ps
  /\ cheating_detected' = FALSE
  /\ pc' = "loop"
  /\ idx' = 0
  /\ image' = <<>>
  /\ prediction' = NoPrediction
  /\ predicted_class' = NoClass
  /\ decisions' = <<>>
  /\ error' = "none"
  /\ embed_calls' = 0
  /\ predict_calls' = 0
  /\ draw_calls' = 0
  /\ UNCHANGED <<observed, utilsVars>>

DetectKeepFlag ==
  /\ pc # "loop"
  /\ \E ps \in PersonSeqs :
       /\ persons' = ps
       /\ pc' = IF ps = <<>> THEN "returned" ELSE "loop"
  /\ idx' = 0
  /\ image' = <<>>
  /\ prediction' = NoPrediction
  /\ predicted_class' = NoClass
  /\ decisions' = <<>>
  /\ error' = "none"
  /\ embed_calls' = 0
  /\ predict_calls' = 0
  /\ draw_calls' = 0
  /\ UNCHANGED <<cheating_detected, observed, utilsVars>>

Detect ==
  /\ pc # "loop"
  /\ \E ps \in PersonSeqs :
       /\ persons' = ps
       /\ pc' = IF ps = <<>> THEN "returned" ELSE "loop"
  /\ cheating_detected' = FALSE
  /\ idx' = 0
  /\ image' = <<>>
  /\ prediction' = NoPrediction
  /\ predicted_class' = NoClass
  /\ decisions' = <<>>
  /\ error' = "none"
  /\ embed_calls' = 0
  /\ predict_calls' = 0
  /\ draw_calls' = 0
  /\ UNCHANGED <<observed, utilsVars>>

\* Line 29 when self.detector.detect raises: nothing catches it, the call
\* ends with the exception before any local is assigned.
DetectRaises ==
  /\ pc # "loop"
  /\ pc' = "raised"
  /\ error' = "detector"
  /\ persons' = <<>>
  /\ cheating_detected' = FALSE
  /\ idx' = 0
  /\ image' = <<>>
  /\ prediction' = NoPrediction
  /\ predicted_class' = NoClass
  /\ decisions' = <<>>
  /\ embed_calls' = 0
  /\ predict_calls' = 0
  /\ draw_calls' = 0
  /\ UNCHANGED <<observed, utilsVars>>

\* Lines 35-58: one iteration of the for loop that runs to its end, the
\* classifier answering with a vector of the given set.
ProcessPersonOn(vectors) ==
  /\ pc = "loop"
  /\ idx < Len(persons)
  /\ \E pr \in vectors :
       LET p == persons[idx + 1]
           class == DecisionRule(pr)
       IN /\ prediction' = pr
          /\ predicted_class' = class
          /\ cheating_detected' = FlagAfter(cheating_detected, class)
          /\ image' = Annotate(image, p, class)
          /\ draw_calls' = IF Annotate(image, p, class) = image
                           THEN draw_calls ELSE draw_calls + 1
          /\ decisions' = Append(decisions, class)
  /\ idx' = idx + 1
  /\ embed_calls' = embed_calls + 1
  /\ predict_calls' = predict_calls + 1
  /\ UNCHANGED <<pc, persons, error, observed, utilsVars>>

ProcessPerson == ProcessPersonOn(ProbVectors)

\* Line 40 when landmarks_to_embedding raises: nothing catches it.
EmbeddingRaises ==
  /\ pc = "loop"
  /\ idx < Len(persons)
  /\ embed_calls' = embed_calls + 1
  /\ error' = "embedding"
  /\ pc' = "raised"
  /\ UNCHANGED <<persons, idx, image, cheating_detected, prediction,
                 predicted_class, decisions, predict_calls, draw_calls,
                 observed, utilsVars>>

\* Line 43 when self.model.predict raises: nothing catches it.
ClassifierRaises ==
  /\ pc = "loop"
  /\ idx < Len(persons)
  /\ embed_calls' = embed_calls + 1
  /\ predict_calls' = predict_calls + 1
  /\ error' = "classifier"
  /\ pc' = "raised"
  /\ UNCHANGED <<persons, idx, image, cheating_detected, prediction,
                 predicted_class, decisions, draw_calls, observed, utilsVars>>

\* Line 60: the loop is exhausted, (image, cheating_detected) is returned.
Return ==
  /\ pc = "loop"
  /\ idx = Len(persons)
  /\ pc' = "returned"
  /\ UNCHANGED <<persons, idx, image, cheating_detected, prediction,
                 predicted_class, decisions, error, embed_calls,
                 predict_calls, draw_calls, observed, utilsVars>>

\* The caller keeps one observation for later comparison: the probability
\* vector and decision of the person just processed, or the decisions and
\* the boolean of the call that just returned.
Observe ==
  /\ observed = NoObservation
  /\ \/ /\ pc \in {"loop", "returned"}
        /\ idx > 0
        /\ observed' = [kind |-> "person", prediction |-> prediction,
                        predicted_class |-> predicted_class]
     \/ /\ pc = "returned"
        /\ observed' = [kind |-> "frame", decisions |-> decisions,
                        cheating_detected |-> cheating_detected]
  /\ UNCHANGED <<pc, persons, idx, image, cheating_detected, prediction,
                 predicted_class, decisions, error, embed_calls,
                 predict_calls, draw_calls, utilsVars>>

\* State after constructing CheatDetection: no call made yet.
Init ==
  /\ pc = "idle"
  /\ persons = <<>>
  /\ idx = 0
  /\ image = <<>>
  /\ cheating_detected = FALSE
  /\ prediction = NoPrediction
  /\ predicted_class = NoClass
  /\ decisions = <<>>
  /\ error = "none"
  /\ embed_calls = 0
  /\ predict_calls = 0
  /\ draw_calls = 0
  /\ observed = NoObservation
  /\ keypoints_with_scores = <<>>
  /\ keypoint_score_threshold = 0
  /\ person = NoPerson

Next ==
  \/ Detect
  \/ DetectRaises
  \/ ProcessPerson
  \/ EmbeddingRaises
  \/ ClassifierRaises
  \/ Return

Spec == Init /\ [][Next]_vars

(***************************************************************************)
(* detect_cheating over many calls with a caller that keeps one earlier    *)
(* observation: the classifier answers with the probe vectors.             *)
(***************************************************************************)
ProbePerson == ProcessPersonOn(ProbeVectors)

FramesNext ==
  \/ Detect
  \/ DetectRaises
  \/ ProbePerson
  \/ EmbeddingRaises
  \/ ClassifierRaises
  \/ Return
  \/ Observe

FramesSpec == Init /\ [][FramesNext]_vars

(***************************************************************************)
(* person_from_keypoints_with_scores as a specification of its own: the    *)
(* arguments are drawn from the bounded inputs, one action applies it.     *)
(***************************************************************************)
PersonInit ==
  /\ keypoints_with_scores \in RawArrays
  /\ keypoint_score_threshold \in Scores
  /\ person = NoPerson
  /\ pc = "idle"
  /\ persons = <<>>
  /\ idx = 0
  /\ image = <<>>
  /\ cheating_detected = FALSE
  /\ prediction = NoPrediction
  /\ predicted_class = NoClass
  /\ decisions = <<>>
  /\ error = "none"
  /\ embed_calls = 0
  /\ predict_calls = 0
  /\ draw_calls = 0
  /\ observed = NoObservation

BuildPerson ==
  /\ person = NoPerson
  /\ person' = person_from_keypoints_with_scores(keypoints_with_scores,
                                                 keypoint_score_threshold)
  /\ UNCHANGED <<keypoints_with_scores, keypoint_score_threshold, frameVars>>

PersonNext == BuildPerson

PersonSpec == PersonInit /\ [][PersonNext]_vars

(***************************************************************************)
(* Properties of detect_cheating, under Spec.                              *)
(***************************************************************************)
\* The persons of the current call decided CHEATING, by position.
Cheaters == { i \in 1 .. Len(decisions) : decisions[i] = 0 }

\* C1: the decision for a probability vector <<p0, p1, p2>> is exactly one
\* of three: CHEATING (0) iff p0 is the maximum and p0 >= 10000 * p1;
\* NOT_CHEATING (1) iff p0 is the maximum and p0 < 10000 * p1; UNCERTAIN (2)
\* iff p0 is strictly below the maximum.  A tie of p0 for the maximum counts
\* as p0 being the maximum.
C1_DecisionRule ==
  prediction # NoPrediction =>
    LET p0 == prediction[1]
        p1 == prediction[2]
        p2 == prediction[3]
        p0IsMax == p0 >= p1 /\ p0 >= p2
    IN /\ predicted_class \in {0, 1, 2}
       /\ predicted_class = 0 <=> (p0IsMax /\ p0 >= 10000 * p1)
       /\ predicted_class = 1 <=> (p0IsMax /\ p0 < 10000 * p1)
       /\ predicted_class = 2 <=> (p0 < p1 \/ p0 < p2)

\* C1 witness: p0 ties with p2 for the maximum and sits exactly on the
\* dominance boundary p0 = 10000 * p1 with p1 > 0.
C1_Witness ==
  /\ prediction # NoPrediction
  /\ prediction[2] > 0
  /\ prediction[1] = 10000 * prediction[2]
  /\ prediction[1] = prediction[3]
  /\ predicted_class = 0

\* C2: when a call with a non-empty sequence of persons returns, the
\* returned boolean is true iff at least one person of the frame was
\* decided CHEATING, whatever their order.
C2_FlagIsOrOverPersons ==
  (pc = "returned" /\ persons # <<>>) =>
    /\ Len(decisions) = Len(persons)
    /\ cheating_detected <=> (\E i \in 1 .. Len(decisions) : decisions[i] = 0)

\* C2 witness: a returned call whose first person was decided CHEATING and
\* whose last person was not.
C2_Witness ==
  /\ pc = "returned"
  /\ Len(decisions) >= 2
  /\ decisions[1] = 0
  /\ decisions[Len(decisions)] # 0
  /\ cheating_detected

\* C3: the frame carries one rectangle per person decided CHEATING, at that
\* person's own bounding box and in the persons' order, and nothing else: no
\* rectangle is drawn for a person decided NOT_CHEATING or UNCERTAIN.
C3_BoxIffCheating ==
  LET rank(i) == Cardinality({ j \in Cheaters : j <= i })
  IN /\ Len(image) = Cardinality(Cheaters)
     /\ draw_calls = Cardinality(Cheaters)
     /\ \A i \in Cheaters :
          LET bb == persons[i].bounding_box
              box == image[rank(i)]
          IN /\ box.start_point = <<bb.start_point.x, bb.start_point.y>>
             /\ box.end_point = <<bb.end_point.x, bb.end_point.y>>

\* C3 witness: a returned call with a NOT_CHEATING person, then a CHEATING
\* person whose bounding box differs from the first one's.
C3_Witness ==
  /\ pc = "returned"
  /\ Len(decisions) >= 2
  /\ decisions[1] = 1
  /\ decisions[2] = 0
  /\ persons[1].bounding_box # persons[2].bounding_box
  /\ Len(image) = 1

\* C4: when the detector returns an empty sequence the call returns at
\* once: it is never inside the loop, the frame is the input frame, the
\* boolean is false, and the embedding builder, the classifier and the
\* annotator were not invoked.
C4_EmptyReturnsAtOnce ==
  (pc # "idle" /\ error = "none" /\ persons = <<>>) =>
    /\ pc = "returned"
    /\ image = <<>>
    /\ ~cheating_detected
    /\ embed_calls = 0
    /\ predict_calls = 0
    /\ draw_calls = 0

\* C4 witness: a call that returned on an empty sequence of persons.
C4_Witness ==
  /\ pc = "returned"
  /\ error = "none"
  /\ persons = <<>>

\* C5: a failure while building the embedding of, or classifying, one
\* person does not abort the call: the loop goes on with the other persons
\* and the call returns.
C5_PersonFailureIsolated ==
  error \in {"embedding", "classifier"} => pc \in {"loop", "returned"}

\* C6: a failure of the pose detector does not reach the caller: the call
\* returns the unmodified frame and false.
C6_DetectorFailureContained ==
  error = "detector" =>
    /\ pc = "returned"
    /\ image = <<>>
    /\ ~cheating_detected

(***************************************************************************)
(* Properties of person_from_keypoints_with_scores, under PersonSpec.      *)
(***************************************************************************)
\* The least and the greatest element of a non-empty set of integers.
Least(S) == CHOOSE m \in S : \A v \in S : m <= v

Greatest(S) == CHOOSE m \in S : \A v \in S : m >= v

RawColumn(c) ==
  { keypoints_with_scores[i][c] : i \in 1 .. Len(keypoints_with_scores) }

\* C7: the bounding box contains the coordinate of every keypoint of the
\* Person, its start is not beyond its end, and it is exactly the
\* truncated (min x, min y) to (max x, max y) of the raw array, no margin.
C7_BoxContainsKeypoints ==
  person # NoPerson =>
    LET bb == person.bounding_box
    IN /\ \A p \in 1 .. Len(person.keypoints) :
            LET c == person.keypoints[p].coordinate
            IN /\ bb.start_point.x <= c.x /\ c.x <= bb.end_point.x
               /\ bb.start_point.y <= c.y /\ c.y <= bb.end_point.y
       /\ bb.start_point.x <= bb.end_point.x
       /\ bb.start_point.y <= bb.end_point.y
       /\ bb.start_point = Point(int(Least(RawColumn(1))),
                                 int(Least(RawColumn(2))))
       /\ bb.end_point = Point(int(Greatest(RawColumn(1))),
                               int(Greatest(RawColumn(2))))

\* C7 witness: a Person built from an array whose least and greatest x are
\* both negative and fractional, so that truncation moved both corners.
C7_Witness ==
  /\ person # NoPerson
  /\ Greatest(RawColumn(1)) < 0
  /\ person.bounding_box.start_point.x # Least(RawColumn(1))
  /\ person.bounding_box.end_point.x # Greatest(RawColumn(1))
  /\ Least(RawColumn(1)) # Greatest(RawColumn(1))

\* C8: the Person has exactly 17 keypoints in BodyPart order: position i
\* (from 0) carries BodyPart i and the score of row i, so every BodyPart
\* appears exactly once.
C8_KeypointsInBodyPartOrder ==
  person # NoPerson =>
    /\ Len(person.keypoints) = 17
    /\ \A p \in 1 .. 17 :
         /\ person.keypoints[p].body_part = p - 1
         /\ person.keypoints[p].score = keypoints_with_scores[p][3]
    /\ \A b \in BodyPart :
         Cardinality({ p \in 1 .. Len(person.keypoints) :
                         person.keypoints[p].body_part = b }) = 1

\* C8 witness: a Person built from an array whose rows differ in score.
C8_Witness ==
  /\ person # NoPerson
  /\ keypoints_with_scores[1][3] # keypoints_with_scores[3][3]
  /\ person.keypoints[3].score = keypoints_with_scores[3][3]

RECURSIVE SumOver(_)
SumOver(I) ==
  IF I = {} THEN 0
  ELSE LET i == CHOOSE j \in I : TRUE
       IN keypoints_with_scores[i][3] + SumOver(I \ {i})

\* C9: the Person score is the arithmetic mean of exactly the keypoint
\* scores strictly above the threshold (a score equal to it is left out);
\* when no score is above the threshold the score is NaN, not a number.
C9_PersonScoreIsMeanAbove ==
  person # NoPerson =>
    LET above == { i \in 1 .. Len(keypoints_with_scores) :
                     keypoints_with_scores[i][3] > keypoint_score_threshold }
    IN IF above = {}
       THEN person.score.nan
       ELSE /\ ~person.score.nan
            /\ person.score.den > 0
            /\ person.score.num * Cardinality(above)
                 = SumOver(above) * person.score.den

\* C9 witness: a Person built from an array with scores equal to the
\* threshold and scores above it.
C9_Witness ==
  /\ person # NoPerson
  /\ \E i \in 1 .. Len(keypoints_with_scores) :
       keypoints_with_scores[i][3] = keypoint_score_threshold
  /\ \E i \in 1 .. Len(keypoints_with_scores) :
       keypoints_with_scores[i][3] > keypoint_score_threshold
  /\ ~person.score.nan

(***************************************************************************)
(* Properties over many calls, under FramesSpec.                           *)
(***************************************************************************)
\* C10: detect_cheating keeps nothing between persons or calls: the flag is
\* false when the loop of a call starts; a probability vector seen again,
\* in this or a later call, gets the decision it got before; and a call
\* whose persons get the decisions of an earlier call returns the boolean
\* that call returned.
C10_Stateless ==
  /\ (pc = "loop" /\ idx = 0) => ~cheating_detected
  /\ (observed.kind = "person" /\ prediction = observed.prediction)
       => predicted_class = observed.predicted_class
  /\ (observed.kind = "frame" /\ pc = "returned"
        /\ decisions = observed.decisions)
       => cheating_detected = observed.cheating_detected

\* C10 witness: after a call that returned true, a later call whose persons
\* were all decided otherwise returns false.
C10_Witness ==
  /\ observed.kind = "frame"
  /\ observed.cheating_detected
  /\ pc = "returned"
  /\ persons # <<>>
  /\ decisions # observed.decisions
  /\ ~cheating_detected

====
